---- MODULE Spec2Model ----
(***************************************************************************)
(* Ghostarr newsletter generation: the in-process event bus                *)
(* (app/core/events.py), the progress tracker                              *)
(* (app/services/progress_tracker.py), the pipeline orchestrator           *)
(* (app/services/newsletter_generator.py) and the cancel endpoint          *)
(* (app/api/v1/newsletters.py).                                            *)
(*                                                                         *)
(* Everything runs on one asyncio event loop: the code between two         *)
(* suspension points (an await that really waits, or a yield of an async   *)
(* generator) is one atomic action.  EventManager.publish never waits      *)
(* (the queues are unbounded), so it is atomic.                            *)
(***************************************************************************)
EXTENDS Integers, Sequences, FiniteSets, TLC

\* ------------------------------------------------------------------ bounds
MaxPublished == 3      \* publish calls made by the generic producer of SpecBus
NumSubscribers == 2    \* subscribe() calls (one async generator each)
NumGenerations == 2    \* generation ids on the bus in SpecBus

Gens == 1..NumGenerations
Subs == 1..NumSubscribers

VARIABLES
    subscribers,     \* EventManager._subscribers: id -> list of queues (queue = subscriber)
    event_history,   \* EventManager._event_history: id -> list of events
    completed,       \* EventManager._completed
    cleanup_tasks,   \* number of sleeping _cleanup_history tasks per id
    queue,           \* the asyncio.Queue of each subscriber
    sub,             \* the async generator of each subscribe() call
    published,       \* log of every publish call per id, never purged (observation only)
    purged           \* how many publish calls of the id preceded its last purge (observation only)

busVars == <<subscribers, event_history, completed, cleanup_tasks, queue, sub, published,
             purged>>

VARIABLES
    mode,            \* entry point of the run: "api" (POST /generate) or "legacy" (generate())
    config,          \* GenerationConfig: enabled sources, skip_if_empty
    pc,              \* where the orchestrator task is
    cur,             \* index in Steps of the step the orchestrator is at
    trackers,        \* the ProgressTracker objects, by name
    active,          \* _active_generations: id -> tracker name
    my,              \* self.tracker of the generator that runs the pipeline
    hist,            \* self.history of the generator that runs the pipeline
    db,              \* the persisted History row
    items,           \* number of items collected per source
    raised,          \* str(e) of the GenerationError on its way to _execute_pipeline
    ghost_url,       \* the value _publish_ghost returned
    path,            \* how _execute_pipeline leaves its try block
    req,             \* the cancel requests (POST /{id}/cancel)
    last_call,       \* the tracker method invoked last (observation only)
    cancelled_running, \* steps that cancel_generation found Running (observation only)
    obs,             \* what the adapters did during the run (observation only)
    clock,           \* the day datetime.now() falls on
    reported         \* what _calculate_progress returned when called on its own

pipeVars == <<mode, config, pc, cur, trackers, active, my, hist, db, items, raised,
              ghost_url, path,
              req, last_call, cancelled_running, obs, clock, reported>>

vars == <<busVars, pipeVars>>

\* ------------------------------------------------------------------ helpers
Range(s) == {s[i] : i \in 1..Len(s)}

RECURSIVE SumLen(_, _)
SumLen(f, S) ==
    IF S = {} THEN 0
    ELSE LET x == CHOOSE y \in S : TRUE IN Len(f[x]) + SumLen(f, S \ {x})

\* list.remove(x): drops the first occurrence
RECURSIVE RemoveFirst(_, _)
RemoveFirst(s, x) ==
    IF s = <<>> THEN <<>>
    ELSE IF Head(s) = x THEN Tail(s)
    ELSE <<Head(s)>> \o RemoveFirst(Tail(s), x)

IsPrefix(a, b) == /\ Len(a) <= Len(b)
                  /\ \A i \in 1..Len(a) : a[i] = b[i]

\* dict without key k
DictPop(d, k) == [x \in (DOMAIN d) \ {k} |-> d[x]]

\* ------------------------------------------------------------------ events
\* ProgressEvent: type, step, progress.  n is the position of the event among
\* the publish calls of its id (the identity of the event object); src is the
\* producer that built it.
ProgressEvent(event_type, step, progress, src) ==
    [type |-> event_type, step |-> step, progress |-> progress, n |-> 0, src |-> src]


IsTerminal(event_type) ==
    event_type \in {"generation_complete", "generation_cancelled", "generation_error"}

ev_generation_started(src) == ProgressEvent("generation_started", "", 0, src)
ev_step_start(step, progress, src) == ProgressEvent("step_start", step, progress, src)
ev_step_complete(step, progress, src) == ProgressEvent("step_complete", step, progress, src)
ev_step_error(step, progress, src) == ProgressEvent("step_error", step, progress, src)
ev_step_skipped(step, progress, src) == ProgressEvent("step_skipped", step, progress, src)
ev_generation_complete(src) == ProgressEvent("generation_complete", "complete", 100, src)
ev_generation_cancelled(src) == ProgressEvent("generation_cancelled", "cancelled", -1, src)

\* ------------------------------------------------------------------ event bus
publishMut3(g, ev) ==
    LET e == [ev EXCEPT !.n = Len(published[g]) + 1] IN
    /\ event_history' =
          IF g \in DOMAIN event_history
          THEN [event_history EXCEPT ![g] = Append(@, e)]
          ELSE [x \in (DOMAIN event_history) \cup {g} |->
                   IF x = g THEN <<e>> ELSE event_history[x]]
    /\ completed' = IF IsTerminal(e.type) THEN completed \cup {g} ELSE completed
    /\ cleanup_tasks' = IF IsTerminal(e.type)
                        THEN [cleanup_tasks EXCEPT ![g] = @ + 1]
                        ELSE cleanup_tasks
    /\ queue' = [s \in Subs |->
                   IF g \in DOMAIN subscribers /\ s = subscribers[g][1]
                   THEN Append(queue[s], e)
                   ELSE queue[s]]
    /\ published' = [published EXCEPT ![g] = Append(@, e)]

publishMut2(g, ev) ==
    LET e == [ev EXCEPT !.n = Len(published[g]) + 1] IN
    /\ event_history' =
          IF g \in DOMAIN event_history
          THEN [event_history EXCEPT ![g] = Append(@, e)]
          ELSE [x \in (DOMAIN event_history) \cup {g} |->
                   IF x = g THEN <<e>> ELSE event_history[x]]
    /\ completed' = IF IsTerminal(e.type) THEN completed \cup {g} ELSE completed
    /\ cleanup_tasks' = IF IsTerminal(e.type)
                        THEN [cleanup_tasks EXCEPT ![g] = @ + 1]
                        ELSE cleanup_tasks
    /\ queue' = [s \in Subs |->
                   IF \E x \in DOMAIN subscribers : s \in Range(subscribers[x])
                   THEN Append(queue[s], e)
                   ELSE queue[s]]
    /\ published' = [published EXCEPT ![g] = Append(@, e)]

publishMut1(g, ev) ==
    LET e == [ev EXCEPT !.n = Len(published[g]) + 1] IN
    /\ event_history' =
          IF g \notin DOMAIN subscribers THEN event_history
          ELSE IF g \in DOMAIN event_history
          THEN [event_history EXCEPT ![g] = Append(@, e)]
          ELSE [x \in (DOMAIN event_history) \cup {g} |->
                   IF x = g THEN <<e>> ELSE event_history[x]]
    /\ completed' = IF IsTerminal(e.type) THEN completed \cup {g} ELSE completed
    /\ cleanup_tasks' = IF IsTerminal(e.type)
                        THEN [cleanup_tasks EXCEPT ![g] = @ + 1]
                        ELSE cleanup_tasks
    /\ queue' = [s \in Subs |->
                   IF g \in DOMAIN subscribers /\ s \in Range(subscribers[g])
                   THEN Append(queue[s], e)
                   ELSE queue[s]]
    /\ published' = [published EXCEPT ![g] = Append(@, e)]

\* EventManager.publish, lines 110-129
publish(g, ev) ==
    LET e == [ev EXCEPT !.n = Len(published[g]) + 1] IN
    /\ event_history' =
          IF g \in DOMAIN event_history
          THEN [event_history EXCEPT ![g] = Append(@, e)]
          ELSE [x \in (DOMAIN event_history) \cup {g} |->
                   IF x = g THEN <<e>> ELSE event_history[x]]
    /\ completed' = IF IsTerminal(e.type) THEN completed \cup {g} ELSE completed
    /\ cleanup_tasks' = IF IsTerminal(e.type)
                        THEN [cleanup_tasks EXCEPT ![g] = @ + 1]
                        ELSE cleanup_tasks
    /\ queue' = [s \in Subs |->
                   IF g \in DOMAIN subscribers /\ s \in Range(subscribers[g])
                   THEN Append(queue[s], e)
                   ELSE queue[s]]
    /\ published' = [published EXCEPT ![g] = Append(@, e)]

\* subscribe, lines 64-67: register the queue
Register(reg, g, s) ==
    IF g \in DOMAIN reg
    THEN [reg EXCEPT ![g] = Append(@, s)]
    ELSE [x \in (DOMAIN reg) \cup {g} |-> IF x = g THEN <<s>> ELSE reg[x]]

UnregisterMut1(reg, g, s) ==
    IF g \in DOMAIN reg
    THEN [reg EXCEPT ![g] = RemoveFirst(reg[g], s)]
    ELSE reg

\* subscribe, the finally block
Unregister(reg, g, s) ==
    IF g \in DOMAIN reg
    THEN LET rest == RemoveFirst(reg[g], s) IN
         IF rest = <<>> THEN DictPop(reg, g) ELSE [reg EXCEPT ![g] = rest]
    ELSE reg

IdleSub == [pc |-> "idle", gen |-> 0, idx |-> 0, frozen |-> FALSE, iter |-> <<>>,
            received |-> <<>>, pubsnap |-> <<>>, purgesnap |-> 0, closed |-> FALSE]

\* the list object the replay loop iterates: the live history list, or the
\* list as it was when _cleanup_history dropped it from the dict
IterList(s) == IF sub[s].frozen THEN sub[s].iter ELSE event_history[sub[s].gen]

\* has_subscribers
has_subscribers(g) == g \in DOMAIN subscribers

\* subscribe, first resumption: lines 61-74 (up to the first yield), or 80-86
subscribe(s, g) ==
    /\ sub[s].pc = "idle"
    /\ LET reg  == Register(subscribers, g, s)
           past == IF g \in DOMAIN event_history THEN event_history[g] ELSE <<>>
           base == [sub[s] EXCEPT !.gen = g, !.pubsnap = published[g],
                                     !.purgesnap = purged[g]]
       IN IF past # <<>>
          THEN /\ sub' = [sub EXCEPT ![s] = [base EXCEPT !.pc = "replay", !.idx = 1,
                                                       !.received = <<past[1]>>]]
               /\ subscribers' = reg
          ELSE IF g \in completed
          THEN /\ sub' = [sub EXCEPT ![s] = [base EXCEPT !.pc = "done"]]
               /\ subscribers' = Unregister(reg, g, s)
          ELSE /\ sub' = [sub EXCEPT ![s] = [base EXCEPT !.pc = "wait"]]
               /\ subscribers' = reg
    /\ UNCHANGED <<event_history, completed, cleanup_tasks, queue, published, purged>>
    /\ UNCHANGED pipeVars

ReplayNextMut1(s) ==
    /\ sub[s].pc = "replay"
    /\ LET lst == IterList(s)
           i   == sub[s].idx
           g   == sub[s].gen
       IN IF i < Len(lst)
          THEN /\ sub' = [sub EXCEPT ![s].idx = i + 1,
                                     ![s].received = Append(@, lst[i + 1])]
               /\ UNCHANGED subscribers
          ELSE IF g \in completed
          THEN /\ sub' = [sub EXCEPT ![s].pc = "done"]
               /\ subscribers' = Unregister(subscribers, g, s)
          ELSE /\ sub' = [sub EXCEPT ![s].pc = "wait"]
               /\ UNCHANGED subscribers
    /\ UNCHANGED <<event_history, completed, cleanup_tasks, queue, published, purged>>
    /\ UNCHANGED pipeVars

\* subscribe, resumed after a replay yield: lines 76-77, 73-74, 80-86
ReplayNext(s) ==
    /\ sub[s].pc = "replay"
    /\ LET lst == IterList(s)
           i   == sub[s].idx
           g   == sub[s].gen
       IN IF IsTerminal(lst[i].type)
          THEN /\ sub' = [sub EXCEPT ![s].pc = "done"]
               /\ subscribers' = Unregister(subscribers, g, s)
          ELSE IF i < Len(lst)
          THEN /\ sub' = [sub EXCEPT ![s].idx = i + 1,
                                     ![s].received = Append(@, lst[i + 1])]
               /\ UNCHANGED subscribers
          ELSE IF g \in completed
          THEN /\ sub' = [sub EXCEPT ![s].pc = "done"]
               /\ subscribers' = Unregister(subscribers, g, s)
          ELSE /\ sub' = [sub EXCEPT ![s].pc = "wait"]
               /\ UNCHANGED subscribers
    /\ UNCHANGED <<event_history, completed, cleanup_tasks, queue, published, purged>>
    /\ UNCHANGED pipeVars

\* subscribe, lines 86-89: queue.get() returns and the event is yielded.
\* After a non-terminal event the generator, once resumed, is back at
\* queue.get() with nothing changed, so that resumption is not a separate step.
LiveGet(s) ==
    /\ sub[s].pc = "wait"
    /\ queue[s] # <<>>
    /\ sub' = [sub EXCEPT ![s].pc = IF IsTerminal(Head(queue[s]).type)
                                    THEN "yielded" ELSE "wait",
                          ![s].received = Append(@, Head(queue[s]))]
    /\ queue' = [queue EXCEPT ![s] = Tail(@)]
    /\ UNCHANGED <<subscribers, event_history, completed, cleanup_tasks, published,
                   purged>>
    /\ UNCHANGED pipeVars

LiveResumeMut1(s) ==
    /\ sub[s].pc = "yielded"
    /\ sub' = [sub EXCEPT ![s].pc = "done"]
    /\ subscribers' = Unregister(subscribers, sub[s].gen, s)
    /\ event_history' = IF sub[s].gen \in DOMAIN subscribers'
                        THEN event_history ELSE DictPop(event_history, sub[s].gen)
    /\ completed' = IF sub[s].gen \in DOMAIN subscribers'
                    THEN completed ELSE completed \ {sub[s].gen}
    /\ UNCHANGED <<cleanup_tasks, queue, published, purged>>
    /\ UNCHANGED pipeVars

\* subscribe, resumed after the live yield of a terminal event: lines 90-91
LiveResume(s) ==
    /\ sub[s].pc = "yielded"
    /\ sub' = [sub EXCEPT ![s].pc = "done"]
    /\ subscribers' = Unregister(subscribers, sub[s].gen, s)
    /\ UNCHANGED <<event_history, completed, cleanup_tasks, queue, published, purged>>
    /\ UNCHANGED pipeVars

\* subscribe, lines 94-97: the 30 s timeout fires on an empty queue; the loop
\* ends if the id is completed and continues, with nothing changed, otherwise
LiveTimeout(s) ==
    /\ sub[s].pc = "wait"
    /\ queue[s] = <<>>
    /\ IF sub[s].gen \in completed
       THEN /\ sub' = [sub EXCEPT ![s].pc = "done"]
            /\ subscribers' = Unregister(subscribers, sub[s].gen, s)
       ELSE UNCHANGED <<sub, subscribers>>
    /\ UNCHANGED <<event_history, completed, cleanup_tasks, queue, published, purged>>
    /\ UNCHANGED pipeVars

\* the consumer closes the generator while it is suspended (client
\* disconnect): only the finally block runs
SubClose(s) ==
    /\ sub[s].pc \in {"replay", "wait", "yielded"}
    /\ sub' = [sub EXCEPT ![s].pc = "done", ![s].closed = TRUE]
    /\ subscribers' = Unregister(subscribers, sub[s].gen, s)
    /\ UNCHANGED <<event_history, completed, cleanup_tasks, queue, published, purged>>
    /\ UNCHANGED pipeVars

\* EventManager._cleanup_history, after its sleep
cleanup_history(g) ==
    /\ cleanup_tasks[g] > 0
    /\ cleanup_tasks' = [cleanup_tasks EXCEPT ![g] = @ - 1]
    /\ event_history' = DictPop(event_history, g)
    /\ completed' = completed \ {g}
    /\ sub' = [s \in Subs |->
                 IF sub[s].pc = "replay" /\ sub[s].gen = g /\ ~sub[s].frozen
                 THEN [sub[s] EXCEPT !.frozen = TRUE, !.iter = event_history[g]]
                 ELSE sub[s]]
    /\ purged' = [purged EXCEPT ![g] = Len(published[g])]
    /\ UNCHANGED <<subscribers, queue, published>>
    /\ UNCHANGED pipeVars

\* ------------------------------------------------------------------ progress tracker
G == 1   \* the generation id of the run modelled in Spec

\* GENERATION_STEPS, in order
Steps == <<"fetch_tautulli", "enrich_tmdb", "fetch_romm", "fetch_komga",
           "fetch_audiobookshelf", "fetch_tunarr", "fetch_statistics",
           "render_template", "publish_ghost">>

StepIds == Range(Steps)

Weight(step_id) ==
    CASE step_id = "fetch_tautulli" -> 15
      [] step_id = "enrich_tmdb" -> 20
      [] step_id = "publish_ghost" -> 5
      [] step_id \in {"fetch_romm", "fetch_komga", "fetch_audiobookshelf", "fetch_tunarr",
                      "fetch_statistics", "render_template"} -> 10
      [] OTHER -> 0

StepName(step_id) ==
    CASE step_id = "fetch_tautulli" -> "Fetching media from Tautulli"
      [] step_id = "enrich_tmdb" -> "Enriching with TMDB metadata"
      [] step_id = "fetch_romm" -> "Fetching games from ROMM"
      [] step_id = "fetch_komga" -> "Fetching books from Komga"
      [] step_id = "fetch_audiobookshelf" -> "Fetching audiobooks"
      [] step_id = "fetch_tunarr" -> "Fetching TV programming"
      [] step_id = "fetch_statistics" -> "Fetching statistics"
      [] step_id = "render_template" -> "Rendering template"
      [] step_id = "publish_ghost" -> "Publishing to Ghost"

RECURSIVE SumWeights(_)
SumWeights(S) ==
    IF S = {} THEN 0
    ELSE LET x == CHOOSE y \in S : TRUE IN Weight(x) + SumWeights(S \ {x})

Min(a, b) == IF a <= b THEN a ELSE b

calculate_progressMut1(completed_weight, total_weight) ==
    IF total_weight = 0 THEN 0
    ELSE Min(100, ((total_weight - completed_weight) * 100) \div total_weight)

\* ProgressTracker._calculate_progress.  The code truncates the float
\* (completed / total) * 100; for every completed and total weight the catalog
\* can produce, that is the integer quotient below (ProgressQuotientExact);
\* calculate_progress_float computes it in floats for arbitrary weights.
calculate_progress(completed_weight, total_weight) ==
    IF total_weight = 0 THEN 0
    ELSE Min(100, (completed_weight * 100) \div total_weight)

NoError == <<>>    \* error = None
NoProgress == -1   \* _calculate_progress has not returned yet
NoCount == -1      \* items_count = None

\* ProgressTracker.__init__
NewTracker(enabled_steps) ==
    LET en == IF enabled_steps = {} THEN StepIds ELSE enabled_steps IN
    [is_cancelled |-> FALSE,
     current_step |-> "none",
     total_weight |-> SumWeights(en),
     completed_weight |-> 0,
     steps |-> [st \in en |-> [status |-> "pending", message |-> StepName(st),
                               error |-> NoError, items_count |-> NoCount]]]

pubVars == <<event_history, completed, cleanup_tasks, queue, published>>

Progress(T) == calculate_progress(T.completed_weight, T.total_weight)

\* last_call: the tracker method invoked last; cancelled_running: the steps
\* cancel_generation found Running
Called(t, op, step_id) ==
    /\ last_call' = [t |-> t, op |-> op, step |-> step_id]
    /\ UNCHANGED cancelled_running

NoTrackerCall == UNCHANGED <<trackers, last_call, cancelled_running>> /\ UNCHANGED pubVars

start_stepMut1(t, step_id, message) ==
    LET T == trackers[t] IN
    /\ Called(t, "start_step", step_id)
    /\ IF step_id \notin DOMAIN T.steps
       THEN UNCHANGED trackers /\ UNCHANGED pubVars
       ELSE /\ trackers' = [trackers EXCEPT ![t].current_step = step_id,
                                            ![t].steps[step_id].status = "running",
                                            ![t].steps[step_id].message = message]
            /\ publish(G, ev_step_start(step_id, Progress(T), t))

\* ProgressTracker.start_step
start_step(t, step_id, message) ==
    LET T == trackers[t] IN
    /\ Called(t, "start_step", step_id)
    /\ IF T.is_cancelled \/ step_id \notin DOMAIN T.steps
       THEN UNCHANGED trackers /\ UNCHANGED pubVars
       ELSE /\ trackers' = [trackers EXCEPT ![t].current_step = step_id,
                                            ![t].steps[step_id].status = "running",
                                            ![t].steps[step_id].message = message]
            /\ publish(G, ev_step_start(step_id, Progress(T), t))

complete_stepMut1(t, step_id, message, items_count) ==
    LET T == trackers[t] IN
    /\ Called(t, "complete_step", step_id)
    /\ IF T.is_cancelled \/ step_id \notin DOMAIN T.steps
       THEN UNCHANGED trackers /\ UNCHANGED pubVars
       ELSE LET T2 == [T EXCEPT !.steps[step_id].items_count = items_count,
                                !.steps[step_id].message = message,
                                !.completed_weight = @ + Weight(step_id)]
            IN /\ trackers' = [trackers EXCEPT ![t] = T2]
               /\ publish(G, ev_step_complete(step_id, Progress(T2), t))

\* ProgressTracker.complete_step
complete_step(t, step_id, message, items_count) ==
    LET T == trackers[t] IN
    /\ Called(t, "complete_step", step_id)
    /\ IF T.is_cancelled \/ step_id \notin DOMAIN T.steps
       THEN UNCHANGED trackers /\ UNCHANGED pubVars
       ELSE LET T2 == [T EXCEPT !.steps[step_id].status = "success",
                                !.steps[step_id].items_count = items_count,
                                !.steps[step_id].message = message,
                                !.completed_weight = @ + Weight(step_id)]
            IN /\ trackers' = [trackers EXCEPT ![t] = T2]
               /\ publish(G, ev_step_complete(step_id, Progress(T2), t))

skip_stepMut1(t, step_id, message) ==
    LET T == trackers[t] IN
    /\ Called(t, "skip_step", step_id)
    /\ IF T.is_cancelled
       THEN UNCHANGED trackers /\ UNCHANGED pubVars
       ELSE LET T1 == IF step_id \in DOMAIN T.steps
                      THEN [T EXCEPT !.steps[step_id].status = "skipped",
                                     !.steps[step_id].message = message]
                      ELSE T
                T2 == [T1 EXCEPT !.completed_weight = @ + Weight(step_id)]
            IN /\ trackers' = [trackers EXCEPT ![t] = T2]
               /\ publish(G, ev_step_skipped(step_id, Progress(T2), t))

skip_stepMut2(t, step_id, message) ==
    LET T == trackers[t] IN
    /\ Called(t, "skip_step", step_id)
    /\ IF T.is_cancelled \/ step_id \notin DOMAIN T.steps
       THEN UNCHANGED trackers /\ UNCHANGED pubVars
       ELSE LET T2 == [T EXCEPT !.steps[step_id].status = "skipped",
                                !.steps[step_id].message = message]
            IN /\ trackers' = [trackers EXCEPT ![t] = T2]
               /\ publish(G, ev_step_skipped(step_id, Progress(T2), t))

\* ProgressTracker.skip_step
skip_step(t, step_id, message) ==
    LET T == trackers[t] IN
    /\ Called(t, "skip_step", step_id)
    /\ IF T.is_cancelled \/ step_id \notin DOMAIN T.steps
       THEN UNCHANGED trackers /\ UNCHANGED pubVars
       ELSE LET T2 == [T EXCEPT !.steps[step_id].status = "skipped",
                                !.steps[step_id].message = message,
                                !.completed_weight = @ + Weight(step_id)]
            IN /\ trackers' = [trackers EXCEPT ![t] = T2]
               /\ publish(G, ev_step_skipped(step_id, Progress(T2), t))

fail_stepMut1(t, step_id, error) ==
    LET T == trackers[t] IN
    /\ Called(t, "fail_step", step_id)
    /\ IF T.is_cancelled \/ step_id \notin DOMAIN T.steps
       THEN UNCHANGED trackers /\ UNCHANGED pubVars
       ELSE /\ trackers' = [trackers EXCEPT ![t].steps[step_id].status = "failed",
                                            ![t].steps[step_id].error = error]
            /\ publish(G, ev_step_error(step_id, Progress(T), t))

\* ProgressTracker.fail_step
fail_step(t, step_id, error) ==
    LET T == trackers[t] IN
    /\ Called(t, "fail_step", step_id)
    /\ IF step_id \notin DOMAIN T.steps
       THEN UNCHANGED trackers /\ UNCHANGED pubVars
       ELSE /\ trackers' = [trackers EXCEPT ![t].steps[step_id].status = "failed",
                                            ![t].steps[step_id].error = error]
            /\ publish(G, ev_step_error(step_id, Progress(T), t))

\* ProgressTracker.complete_generation
complete_generation(t) ==
    /\ Called(t, "complete_generation", "")
    /\ UNCHANGED trackers
    /\ publish(G, ev_generation_complete(t))

\* ProgressTracker.cancel_generation
cancel_generation(t) ==
    LET T == trackers[t]
        hit == /\ T.current_step # "none"
               /\ T.current_step \in DOMAIN T.steps
               /\ T.steps[T.current_step].status = "running"
    IN
    /\ last_call' = [t |-> t, op |-> "cancel_generation", step |-> ""]
    /\ cancelled_running' = IF hit THEN cancelled_running \cup {T.current_step}
                             ELSE cancelled_running
    /\ trackers' = IF hit
                   THEN [trackers EXCEPT ![t].is_cancelled = TRUE,
                                         ![t].steps[T.current_step].status = "failed",
                                         ![t].steps[T.current_step].error = <<"Cancelled">>]
                   ELSE [trackers EXCEPT ![t].is_cancelled = TRUE]
    /\ publish(G, ev_generation_cancelled(t))

\* ProgressTracker.get_progress_log
get_progress_log(t) == trackers[t].steps

\* ------------------------------------------------------------------ orchestrator
MaxOptional == 1        \* optional sources enabled in a configuration, at most
MaxItems == 1           \* items one source returns, at most
MaxCancelRequests == 1  \* cancel requests sent for the generation
MaxFaults == 1          \* adapter calls that raise during a run, at most
MaxUnconfigured == 1    \* enabled steps found without credentials during a run, at most

CancelReqs == 1..MaxCancelRequests

Sources == {"tautulli", "romm", "komga", "audiobookshelf", "tunarr", "statistics"}
OptionalSources == Sources \ {"tautulli"}
ItemSources == Sources \ {"statistics"}

\* the config flag each step method tests first
SourceOf(step_id) ==
    CASE step_id \in {"fetch_tautulli", "enrich_tmdb"} -> "tautulli"
      [] step_id = "fetch_romm" -> "romm"
      [] step_id = "fetch_komga" -> "komga"
      [] step_id = "fetch_audiobookshelf" -> "audiobookshelf"
      [] step_id = "fetch_tunarr" -> "tunarr"
      [] step_id = "fetch_statistics" -> "statistics"
      [] OTHER -> "none"

\* steps whose except clause re-raises a GenerationError / swallows the error
FatalSteps == {"fetch_tautulli", "render_template", "publish_ghost"}
SoftSteps == StepIds \ FatalSteps

\* NewsletterGenerator._get_enabled_steps
get_enabled_steps(cfg) ==
    (IF "tautulli" \in cfg.enabled THEN {"fetch_tautulli", "enrich_tmdb"} ELSE {})
    \cup {st \in {"fetch_romm", "fetch_komga", "fetch_audiobookshelf", "fetch_tunarr",
                  "fetch_statistics"} : SourceOf(st) \in cfg.enabled}
    \cup {"render_template", "publish_ghost"}

get_total_itemsMut1(it) ==
    it["tautulli"] + it["romm"] + it["komga"] + it["audiobookshelf"] + it["tunarr"] + 1

\* NewsletterGenerator._get_total_items
get_total_items(it) ==
    it["tautulli"] + it["romm"] + it["komga"] + it["audiobookshelf"] + it["tunarr"]

GenerationErrorStrMut1(step_id, message) == <<"Generation failed">> \o message

\* str(GenerationError(step, message)): "Generation failed at {step}: {message}",
\* as a list of words
GenerationErrorStr(step_id, message) == <<"Generation failed at", step_id>> \o message

\* what an adapter can raise, as str(e)
AdapterErrors(step_id) ==
    IF step_id = "render_template"
    THEN {<<"boom">>, GenerationErrorStr("render_template", <<"Template not found">>)}
    ELSE {<<"boom">>}

NotConfiguredMessage(step_id) ==
    CASE step_id = "enrich_tmdb" -> "TMDB not configured"
      [] step_id = "fetch_statistics" -> "Tautulli not configured"
      [] step_id = "publish_ghost" -> "Ghost not configured"
      [] OTHER -> "Not configured"

\* title templates (config.title), as lists of words: one without variables
\* and one with the variable {{date.day}}
PlainTitle == <<"Newsletter">>
DatedTitle == <<"Newsletter", "{{date.day}}">>
TitleTemplates == {PlainTitle, DatedTitle}

NoTitle == <<>>

\* TemplateService.render_title with datetime.now() on day now
render_title(title_template, now) ==
    [i \in 1..Len(title_template) |->
        IF title_template[i] = "{{date.day}}" THEN ToString(now) ELSE title_template[i]]

\* the History object of create_history_entry
NewHistory ==
    [status |-> "running", error_message |-> NoError, items_count |-> 0,
     ghost_post_id |-> "none", ghost_post_url |-> "none",
     completed_at |-> FALSE, duration_set |-> FALSE, progress_log |-> <<>>]

NoRow == [NewHistory EXCEPT !.status = "absent"]

IdleReq == [pc |-> "idle", seen |-> "none", ok |-> FALSE]

NoCalls == [adapter_calls |-> <<>>, flag_calls |-> 0, soft_failed |-> {},
            fatal |-> "none", fatal_text |-> <<>>, unconfigured |-> {},
            render_title |-> NoTitle, publish_title |-> NoTitle]

\* the orchestrator task is suspended in an await that really waits
AtSuspension == pc \in {"idle", "created", "bg_sleep", "creds", "call", "commit",
                        "refresh", "done"}

PipeIdle ==
    /\ mode = "none"
    /\ config = [enabled |-> {}, skip_if_empty |-> FALSE, title |-> DatedTitle]
    /\ clock = 0
    /\ reported = NoProgress
    /\ pc = "idle"
    /\ cur = 0
    /\ trackers = <<>>
    /\ active = <<>>
    /\ my = "none"
    /\ hist = NoRow
    /\ db = NoRow
    /\ items = [x \in ItemSources |-> 0]
    /\ raised = <<>>
    /\ ghost_url = "none"
    /\ path = "none"
    /\ req = [r \in CancelReqs |-> IdleReq]
    /\ last_call = [t |-> "none", op |-> "none", step |-> ""]
    /\ cancelled_running = {}
    /\ obs = NoCalls

\* variables no orchestrator action changes
outside == <<subscribers, sub, purged, req, mode, config, clock, reported>>

\* NewsletterGenerator.create_history_entry, called by generate() ("legacy")
\* or by the POST /generate handler ("api"), which then spawns run_generation
create_history_entry(m) ==
    /\ pc = "idle"
    /\ mode' = m
    /\ trackers' = [t \in {"t0"} |-> NewTracker(get_enabled_steps(config))]
    /\ active' = [g \in {G} |-> "t0"]
    /\ my' = "t0"
    /\ hist' = NewHistory
    /\ db' = NewHistory
    /\ pc' = IF m = "api" THEN "bg_sleep" ELSE "created"
    /\ UNCHANGED <<cur, items, raised, ghost_url, path, last_call, cancelled_running, obs>>
    /\ UNCHANGED pubVars
    /\ UNCHANGED <<subscribers, sub, purged, req, config, clock, reported>>

\* run_generation (newsletters.py 53-70) up to tracker.broadcast_started
run_generation ==
    /\ pc = "bg_sleep"
    /\ hist' = db
    /\ trackers' = [t \in {"t0", "t1"} |->
                      IF t = "t1" THEN NewTracker(get_enabled_steps(config))
                      ELSE trackers[t]]
    /\ active' = [g \in {G} |-> "t1"]
    /\ my' = "t1"
    /\ last_call' = [t |-> "t1", op |-> "broadcast_started", step |-> ""]
    /\ publish(G, ev_generation_started("t1"))
    /\ pc' = "begin"
    /\ cur' = 1
    /\ UNCHANGED <<db, items, raised, ghost_url, path, cancelled_running, obs>>
    /\ UNCHANGED outside

\* run_pipeline after create_history_entry (generate()), up to
\* tracker.broadcast_started
run_pipeline ==
    /\ pc = "created"
    /\ last_call' = [t |-> my, op |-> "broadcast_started", step |-> ""]
    /\ publish(G, ev_generation_started(my))
    /\ pc' = "begin"
    /\ cur' = 1
    /\ UNCHANGED <<trackers, active, my, hist, db, items, raised, ghost_url, path,
                   cancelled_running, obs>>
    /\ UNCHANGED outside

\* the head of a step method: the enabled test and tracker.start_step
BeginStep ==
    /\ pc = "begin"
    /\ LET st == Steps[cur] IN
       IF st \in {"render_template", "publish_ghost"}
       THEN /\ start_step(my, st, "started")
            /\ pc' = IF st = "render_template" THEN "call" ELSE "creds"
       ELSE IF SourceOf(st) \notin config.enabled
       THEN /\ skip_step(my, st, IF st = "enrich_tmdb" THEN "No media to enrich"
                                 ELSE "Disabled")
            /\ pc' = "check"
       ELSE IF st = "enrich_tmdb" /\ items["tautulli"] = 0
       THEN /\ skip_step(my, st, "No media to enrich")
            /\ pc' = "check"
       ELSE /\ start_step(my, st, "started")
            /\ pc' = "creds"
    /\ obs' = IF pc' = "call"
              THEN [obs EXCEPT !.adapter_calls = Append(@, Steps[cur]),
                               !.flag_calls = @ + (IF trackers[my].is_cancelled THEN 1 ELSE 0)]
              ELSE obs
    /\ UNCHANGED <<cur, active, my, hist, db, items, raised, ghost_url, path>>
    /\ UNCHANGED outside

CredentialsMut1 ==
    /\ pc = "creds"
    /\ LET st == Steps[cur] IN
       \E configured \in BOOLEAN :
         IF configured
         THEN /\ pc' = "call"
              /\ obs' = [obs EXCEPT !.adapter_calls = Append(@, st),
                                    !.flag_calls = @ + (IF trackers[my].is_cancelled
                                                        THEN 1 ELSE 0),
                                    !.publish_title =
                                        IF st = "publish_ghost"
                                        THEN render_title(config.title, clock) ELSE @]
              /\ NoTrackerCall
         ELSE /\ Cardinality(obs.unconfigured) < MaxUnconfigured
              /\ skip_step(my, st, NotConfiguredMessage(st))
              /\ pc' = "call"
              /\ obs' = [obs EXCEPT !.unconfigured = @ \cup {st},
                                    !.adapter_calls = Append(@, st)]
    /\ UNCHANGED <<cur, active, my, hist, db, items, raised, ghost_url, path>>
    /\ UNCHANGED outside

\* get_service_credentials returned: not configured -> skip_step and return,
\* otherwise the adapter is called
Credentials ==
    /\ pc = "creds"
    /\ LET st == Steps[cur] IN
       \E configured \in BOOLEAN :
         IF configured
         THEN /\ pc' = "call"
              /\ obs' = [obs EXCEPT !.adapter_calls = Append(@, st),
                                    !.flag_calls = @ + (IF trackers[my].is_cancelled
                                                        THEN 1 ELSE 0),
                                    !.publish_title =
                                        IF st = "publish_ghost"
                                        THEN render_title(config.title, clock) ELSE @]
              /\ NoTrackerCall
         ELSE /\ Cardinality(obs.unconfigured) < MaxUnconfigured
              /\ skip_step(my, st, NotConfiguredMessage(st))
              /\ pc' = IF st = "publish_ghost" THEN "complete" ELSE "check"
              /\ obs' = [obs EXCEPT !.unconfigured = @ \cup {st}]
    /\ UNCHANGED <<cur, active, my, hist, db, items, raised, ghost_url, path>>
    /\ UNCHANGED outside

\* the adapter call returned: the rest of the try block of the step method
StepReturns ==
    /\ pc = "call"
    /\ LET st == Steps[cur] IN
       CASE st \in {"fetch_tautulli", "fetch_romm", "fetch_komga", "fetch_audiobookshelf",
                    "fetch_tunarr"} ->
              \E n \in 0..MaxItems :
                 /\ items' = [items EXCEPT ![SourceOf(st)] = n]
                 /\ complete_step(my, st, "Found", n)
                 /\ pc' = "check"
                 /\ UNCHANGED hist
         [] st = "enrich_tmdb" ->
              \E n \in 0..items["tautulli"] :
                 /\ complete_step(my, st, "Enriched", n)
                 /\ pc' = "check"
                 /\ UNCHANGED <<items, hist>>
         [] st \in {"fetch_statistics", "render_template"} ->
              /\ complete_step(my, st, "done", 1)
              /\ pc' = "check"
              /\ UNCHANGED <<items, hist>>
         [] st = "publish_ghost" ->
              \E post \in BOOLEAN :
                 /\ hist' = IF post THEN [hist EXCEPT !.ghost_post_id = "post"] ELSE hist
                 /\ ghost_url' = IF post THEN "url" ELSE "none"
                 /\ complete_step(my, st, "Published", 1)
                 /\ pc' = "complete"
                 /\ UNCHANGED items
    /\ IF Steps[cur] = "publish_ghost" THEN TRUE ELSE UNCHANGED ghost_url
    /\ obs' = IF Steps[cur] = "render_template"
              THEN [obs EXCEPT !.render_title = render_title(config.title, clock)]
              ELSE obs
    /\ UNCHANGED <<cur, active, my, db, raised, path>>
    /\ UNCHANGED outside

StepRaisesMut1 ==
    /\ pc = "call"
    /\ Cardinality(obs.soft_failed) + (IF obs.fatal = "none" THEN 0 ELSE 1) < MaxFaults
    /\ LET st == Steps[cur] IN
       \E text \in AdapterErrors(st) :
         /\ fail_step(my, st, text)
         /\ raised' = GenerationErrorStr(st, text)
         /\ pc' = "except"
         /\ obs' = IF st \in FatalSteps
                   THEN [obs EXCEPT !.fatal = st, !.fatal_text = text]
                   ELSE [obs EXCEPT !.soft_failed = @ \cup {st}]
    /\ UNCHANGED <<cur, active, my, hist, db, items, ghost_url, path>>
    /\ UNCHANGED outside

\* the adapter call raised: the except clause of the step method
StepRaises ==
    /\ pc = "call"
    /\ Cardinality(obs.soft_failed) + (IF obs.fatal = "none" THEN 0 ELSE 1) < MaxFaults
    /\ LET st == Steps[cur] IN
       \E text \in AdapterErrors(st) :
         IF st \in FatalSteps
         THEN /\ fail_step(my, st, text)
              /\ raised' = GenerationErrorStr(st, text)
              /\ pc' = "except"
              /\ obs' = [obs EXCEPT !.fatal = st, !.fatal_text = text]
         ELSE /\ complete_step(my, st, "failed, continuing", 0)
              /\ pc' = "check"
              /\ obs' = [obs EXCEPT !.soft_failed = @ \cup {st}]
              /\ UNCHANGED raised
    /\ UNCHANGED <<cur, active, my, hist, db, items, ghost_url, path>>
    /\ UNCHANGED outside

FinalizedMut1(h, trk) == [h EXCEPT !.completed_at = TRUE, !.duration_set = TRUE]

\* NewsletterGenerator._finalize up to its commit, on the tracker state trk
Finalized(h, trk) == [h EXCEPT !.completed_at = TRUE, !.duration_set = TRUE,
                               !.progress_log = trk.steps]

ExceptMut1 ==
    /\ pc = "except"
    /\ NoTrackerCall
    /\ active' = DictPop(active, G)
    /\ path' = "fall"
    /\ pc' = "done"
    /\ UNCHANGED <<cur, my, hist, db, items, raised, ghost_url, obs>>
    /\ UNCHANGED outside

\* _execute_pipeline, except Exception (205-211), the finally clause and
\* _finalize up to its commit
Except ==
    /\ pc = "except"
    /\ IF trackers[my].current_step # "none"
       THEN fail_step(my, trackers[my].current_step, raised)
       ELSE NoTrackerCall
    /\ active' = DictPop(active, G)
    /\ hist' = Finalized([hist EXCEPT !.status = "failed", !.error_message = raised],
                         trackers'[my])
    /\ path' = "fall"
    /\ pc' = "commit"
    /\ UNCHANGED <<cur, my, db, items, raised, ghost_url, obs>>
    /\ UNCHANGED outside

\* NewsletterGenerator._is_cancelled
is_cancelled == my # "none" /\ trackers[my].is_cancelled

CheckMut1 ==
    /\ pc = "check"
    /\ IF is_cancelled /\ cur = 1
       THEN /\ cancel_generation(my)
            /\ hist' = Finalized([hist EXCEPT !.status = "cancelled",
                                              !.error_message = <<"Cancelled by user">>],
                                 trackers'[my])
            /\ path' = "return"
            /\ pc' = "commit"
            /\ UNCHANGED cur
       ELSE IF cur = 7 /\ config.skip_if_empty /\ get_total_items(items) = 0
       THEN /\ complete_generation(my)
            /\ hist' = Finalized([hist EXCEPT !.status = "success",
                                              !.error_message = <<"Skipped: no new content">>,
                                              !.items_count = 0],
                                 trackers'[my])
            /\ path' = "return"
            /\ pc' = "commit"
            /\ UNCHANGED cur
       ELSE /\ NoTrackerCall
            /\ cur' = cur + 1
            /\ pc' = "begin"
            /\ UNCHANGED <<hist, path>>
    /\ UNCHANGED <<active, my, db, items, raised, ghost_url, obs>>
    /\ UNCHANGED outside

\* _execute_pipeline: the cancellation check after a step (148-187) with
\* _handle_cancellation, and the skip-if-empty test (176-182); both return
\* through _finalize
Check ==
    /\ pc = "check"
    /\ IF is_cancelled
       THEN /\ cancel_generation(my)
            /\ hist' = Finalized([hist EXCEPT !.status = "cancelled",
                                              !.error_message = <<"Cancelled by user">>],
                                 trackers'[my])
            /\ path' = "return"
            /\ pc' = "commit"
            /\ UNCHANGED cur
       ELSE IF cur = 7 /\ config.skip_if_empty /\ get_total_items(items) = 0
       THEN /\ complete_generation(my)
            /\ hist' = Finalized([hist EXCEPT !.status = "success",
                                              !.error_message = <<"Skipped: no new content">>,
                                              !.items_count = 0],
                                 trackers'[my])
            /\ path' = "return"
            /\ pc' = "commit"
            /\ UNCHANGED cur
       ELSE /\ NoTrackerCall
            /\ cur' = cur + 1
            /\ pc' = "begin"
            /\ UNCHANGED <<hist, path>>
    /\ UNCHANGED <<active, my, db, items, raised, ghost_url, obs>>
    /\ UNCHANGED outside

\* _execute_pipeline 192-200 after _publish_ghost returned, the finally clause
\* and _finalize up to its commit
Complete ==
    /\ pc = "complete"
    /\ complete_generation(my)
    /\ active' = DictPop(active, G)
    /\ hist' = Finalized([hist EXCEPT !.status = "success",
                                      !.ghost_post_url = ghost_url,
                                      !.items_count = get_total_items(items)],
                         trackers'[my])
    /\ path' = "fall"
    /\ pc' = "commit"
    /\ UNCHANGED <<cur, my, db, items, raised, ghost_url, obs>>
    /\ UNCHANGED outside

\* _finalize: db.commit() writes the row
Commit ==
    /\ pc = "commit"
    /\ db' = hist
    /\ pc' = "refresh"
    /\ NoTrackerCall
    /\ UNCHANGED <<cur, active, my, hist, items, raised, ghost_url, path, obs>>
    /\ UNCHANGED outside

RefreshMut1 ==
    /\ pc = "refresh"
    /\ hist' = db
    /\ pc' = "done"
    /\ NoTrackerCall
    /\ UNCHANGED <<cur, active, my, db, items, raised, ghost_url, path, obs>>
    /\ UNCHANGED outside

\* _finalize: db.refresh() reloads the row; a return from inside the try block
\* only now reaches the finally clause
Refresh ==
    /\ pc = "refresh"
    /\ hist' = db
    /\ active' = IF path = "return" THEN DictPop(active, G) ELSE active
    /\ pc' = "done"
    /\ NoTrackerCall
    /\ UNCHANGED <<cur, my, db, items, raised, ghost_url, path, obs>>
    /\ UNCHANGED outside

\* ------------------------------------------------------------------ cancel endpoint
ReqUsable(r) == IF r = 1 THEN TRUE ELSE req[r - 1].pc # "idle"

reqFrame == <<mode, config, pc, cur, my, hist, items, raised, ghost_url, path, obs,
              subscribers, sub, purged, clock, reported>>

\* cancel_newsletter_generation: db.get(History, generation_id)
CancelRead(r) ==
    /\ AtSuspension
    /\ req[r].pc = "idle"
    /\ ReqUsable(r)
    /\ db.status # "absent"
    /\ req' = [req EXCEPT ![r].pc = "read", ![r].seen = db.status]
    /\ NoTrackerCall
    /\ UNCHANGED <<active, db>>
    /\ UNCHANGED reqFrame

\* cancel_generation (newsletter_generator.py 903-909)
cancel_generation_by_id(g) ==
    IF g \in DOMAIN active
    THEN cancel_generation(active[g])
    ELSE NoTrackerCall

\* cancel_newsletter_generation: the status test, cancel_generation and the
\* assignment of history.status
CancelAct(r) ==
    /\ AtSuspension
    /\ req[r].pc = "read"
    /\ IF req[r].seen # "running"
       THEN /\ req' = [req EXCEPT ![r].pc = "done"]
            /\ NoTrackerCall
       ELSE /\ cancel_generation_by_id(G)
            /\ req' = IF G \in DOMAIN active
                      THEN [req EXCEPT ![r].pc = "commit", ![r].ok = TRUE]
                      ELSE [req EXCEPT ![r].pc = "done"]
    /\ UNCHANGED <<active, db>>
    /\ UNCHANGED reqFrame

\* cancel_newsletter_generation: db.commit() writes status
CancelCommit(r) ==
    /\ AtSuspension
    /\ req[r].pc = "commit"
    /\ db' = [db EXCEPT !.status = "cancelled"]
    /\ req' = [req EXCEPT ![r].pc = "done"]
    /\ NoTrackerCall
    /\ UNCHANGED active
    /\ UNCHANGED reqFrame

\* ------------------------------------------------------------------ Spec
Configs == {c \in [enabled : SUBSET Sources, skip_if_empty : BOOLEAN,
                    title : {DatedTitle}] :
               Cardinality(c.enabled \cap OptionalSources) <= MaxOptional}

BusInit ==
    /\ subscribers = <<>>
    /\ event_history = <<>>
    /\ completed = {}
    /\ cleanup_tasks = [g \in Gens |-> 0]
    /\ queue = [s \in Subs |-> <<>>]
    /\ sub = [s \in Subs |-> IdleSub]
    /\ published = [g \in Gens |-> <<>>]
    /\ purged = [g \in Gens |-> 0]

Init ==
    /\ BusInit
    /\ mode = "none"
    /\ config \in Configs
    /\ pc = "idle"
    /\ cur = 0
    /\ trackers = <<>>
    /\ active = <<>>
    /\ my = "none"
    /\ hist = NoRow
    /\ db = NoRow
    /\ items = [x \in ItemSources |-> 0]
    /\ raised = <<>>
    /\ ghost_url = "none"
    /\ path = "none"
    /\ req = [r \in CancelReqs |-> IdleReq]
    /\ last_call = [t |-> "none", op |-> "none", step |-> ""]
    /\ cancelled_running = {}
    /\ obs = NoCalls
    /\ clock = 0
    /\ reported = NoProgress

Next ==
    \/ \E m \in {"api", "legacy"} : create_history_entry(m)
    \/ run_generation
    \/ run_pipeline
    \/ BeginStep
    \/ Credentials
    \/ StepReturns
    \/ StepRaises
    \/ Except
    \/ Check
    \/ Complete
    \/ Commit
    \/ Refresh
    \/ \E r \in CancelReqs : CancelRead(r)
    \/ \E r \in CancelReqs : CancelAct(r)
    \/ \E r \in CancelReqs : CancelCommit(r)

Spec == Init /\ [][Next]_vars

\* ------------------------------------------------------------------ SpecBus
\* the bus alone, driven by a producer that may publish any event at any time
BusEventKinds == {"step_start", "generation_cancelled"}

BusEvent(kind) ==
    CASE kind = "step_start" -> ev_step_start("fetch_tautulli", 0, "producer")
      [] kind = "generation_cancelled" -> ev_generation_cancelled("producer")

\* generation ids and subscribe calls are numbered in order of first use
GenUsed(g) == published[g] # <<>> \/ \E s \in Subs : sub[s].gen = g
GenUsable(g) == IF g = 1 THEN TRUE ELSE GenUsed(g - 1)
SubUsable(s) == IF s = 1 THEN TRUE ELSE sub[s - 1].pc # "idle"

publish_any(g, kind) ==
    /\ SumLen(published, Gens) < MaxPublished
    /\ GenUsable(g)
    /\ publish(g, BusEvent(kind))
    /\ UNCHANGED <<subscribers, sub, purged>>
    /\ UNCHANGED pipeVars

InitBus ==
    /\ BusInit
    /\ PipeIdle

NextBus ==
    \/ \E g \in Gens, kind \in BusEventKinds : publish_any(g, kind)
    \/ \E s \in Subs, g \in Gens : SubUsable(s) /\ GenUsable(g) /\ subscribe(s, g)
    \/ \E s \in Subs : ReplayNext(s)
    \/ \E s \in Subs : LiveGet(s)
    \/ \E s \in Subs : LiveResume(s)
    \/ \E s \in Subs : LiveTimeout(s)
    \/ \E s \in Subs : SubClose(s)
    \/ \E g \in Gens : cleanup_history(g)

SpecBus == InitBus /\ [][NextBus]_vars

\* ------------------------------------------------------------------ claims on the bus
TerminalTypes == {"generation_complete", "generation_cancelled", "generation_error"}

\* the prefix of a list of events up to and including its first terminal event
RECURSIVE UpToFirstTerminal(_)
UpToFirstTerminal(es) ==
    IF es = <<>> THEN <<>>
    ELSE IF Head(es).type \in TerminalTypes THEN <<Head(es)>>
    ELSE <<Head(es)>> \o UpToFirstTerminal(Tail(es))

\* the subscriber's replay is over and was not cut short by the consumer
PastReplay(s) == \/ sub[s].pc \in {"wait", "yielded"}
                 \/ sub[s].pc = "done" /\ ~sub[s].closed

ReceivesFirst(s, target) ==
    /\ IsPrefix(sub[s].received, target) \/ IsPrefix(target, sub[s].received)
    /\ PastReplay(s) => IsPrefix(target, sub[s].received)

\* C1 as stated: a subscriber receives first, in publication order, every
\* event that was published to its id before it subscribed.
C1_ReplaysAllPublished ==
    \A s \in Subs : sub[s].pc # "idle" => ReceivesFirst(s, sub[s].pubsnap)

\* C1 amended: a subscriber receives first, in publication order, the events
\* that were published to its id since the id's last purge and before it
\* subscribed, up to and including the first terminal event among them.
C1_ReplaysHistory ==
    \A s \in Subs : sub[s].pc # "idle" =>
        ReceivesFirst(s, UpToFirstTerminal(
            SubSeq(sub[s].pubsnap, sub[s].purgesnap + 1, Len(sub[s].pubsnap))))

\* C1 witness: a subscriber that joined after two events, got both, and then
\* got an event published after it subscribed
C1_Witness ==
    \E s \in Subs : /\ Len(sub[s].pubsnap) >= 2
                     /\ sub[s].purgesnap = 0
                     /\ Len(sub[s].received) > Len(sub[s].pubsnap)
                     /\ sub[s].received[Len(sub[s].received)].n > Len(sub[s].pubsnap)

\* C3: a terminal event is the last event a subscriber receives: nothing
\* published afterwards reaches it, and once it is resumed its stream is over.
C3_TerminalIsLast ==
    \A s \in Subs :
        /\ \A i \in 1..(Len(sub[s].received) - 1) :
               sub[s].received[i].type \notin TerminalTypes
        /\ (sub[s].received # <<>>
             /\ sub[s].received[Len(sub[s].received)].type \in TerminalTypes)
           => sub[s].pc \in {"replay", "yielded", "done"}

\* C3 witness: a subscriber ended by a terminal event while a later publish
\* call was made for its id
C3_Witness ==
    \E s \in Subs :
        /\ sub[s].pc = "done" /\ ~sub[s].closed /\ sub[s].received # <<>>
        /\ LET last == sub[s].received[Len(sub[s].received)] IN
              /\ last.type \in TerminalTypes
              /\ Len(published[sub[s].gen]) > last.n

\* C4: a subscriber receives events in publication order: it never receives
\* an event after one that was published later.
C4_FifoOrder ==
    \A s \in Subs : \A i, j \in 1..Len(sub[s].received) :
        i < j => sub[s].received[i].n <= sub[s].received[j].n

\* ------------------------------------------------------------------ claims on the pipeline
Types(es) == {es[i].type : i \in 1..Len(es)}

Started(step_id) ==
    \E i \in 1..Len(published[G]) :
        published[G][i].type = "step_start" /\ published[G][i].step = step_id

NoCancelRequest == \A r \in CancelReqs : req[r].pc = "idle"

StepIndex(step_id) == CHOOSE i \in 1..Len(Steps) : Steps[i] = step_id

\* a is a contiguous part of b
Occurs(a, b) ==
    \E k \in 0..(Len(b) - Len(a)) : \A i \in 1..Len(a) : b[k + i] = a[i]

\* C2: a run that has ended has published a terminal event for its id.
C2_TerminalEventPublished ==
    pc = "done" => Types(published[G]) \cap TerminalTypes # {}

\* C5: once cancel_generation was called on a tracker, start_step,
\* complete_step and skip_step of that tracker do nothing: none of its step
\* records becomes Running, Success or Skipped, its completed weight stays,
\* and it emits no step_start, step_complete or step_skipped event.
C5_CancelledTrackerFrozen ==
    [][\A t \in DOMAIN trackers :
         trackers[t].is_cancelled =>
           /\ \A st \in DOMAIN trackers[t].steps :
                trackers'[t].steps[st].status # trackers[t].steps[st].status
                  => trackers'[t].steps[st].status \notin {"running", "success", "skipped"}
           /\ trackers'[t].completed_weight = trackers[t].completed_weight
           /\ \A i \in (Len(published[G]) + 1)..Len(published'[G]) :
                published'[G][i].src = t
                  => published'[G][i].type \notin
                         {"step_start", "step_complete", "step_skipped"}]_vars

\* C5 witness: start_step, complete_step or skip_step was just called for a
\* step of a cancelled tracker
C5_Witness ==
    /\ last_call.op \in {"start_step", "complete_step", "skip_step"}
    /\ last_call.t \in DOMAIN trackers
    /\ trackers[last_call.t].is_cancelled
    /\ last_call.step \in DOMAIN trackers[last_call.t].steps

\* C6: when the flag of the run's tracker is set as a step returns, the
\* orchestrator goes to _handle_cancellation instead of the next step: the
\* result becomes Cancelled, generation_cancelled is emitted and the run goes
\* to finalization, from where no adapter is called any more; at most one
\* adapter call ever begins while the flag is set.
C6_CancelBetweenSteps ==
    [][/\ (pc = "check" /\ is_cancelled) =>
            /\ pc' = "commit" /\ path' = "return" /\ cur' = cur
            /\ hist'.status = "cancelled"
            /\ Len(published'[G]) = Len(published[G]) + 1
            /\ published'[G][Len(published'[G])].type = "generation_cancelled"
       /\ pc \in {"commit", "refresh", "done"} =>
            /\ obs'.adapter_calls = obs.adapter_calls
            /\ pc' \in {"commit", "refresh", "done"}
       /\ obs'.flag_calls <= 1]_vars

\* C6 witness: the cancellation path was taken after a step that was in
\* flight when the flag was set, with steps remaining
C6_Witness ==
    /\ pc = "commit" /\ path = "return" /\ hist.status = "cancelled"
    /\ cur < Len(Steps)
    /\ cancelled_running # {}

\* C7: a generation whose cancel request was accepted never ends Success and
\* never publishes generation_complete.
C7_CancelledNeverSucceeds ==
    (\E r \in CancelReqs : req[r].ok) =>
        /\ "generation_complete" \notin Types(published[G])
        /\ (pc = "done" /\ \A r \in CancelReqs : req[r].pc \in {"idle", "done"})
              => db.status # "success"

\* C8: the step that was Running when cancel_generation was called is, in the
\* finalized step log, Failed with error "Cancelled".
C8_RunningStepEndsCancelled ==
    pc = "done" =>
        \A st \in cancelled_running :
            /\ db.progress_log[st].status = "failed"
            /\ db.progress_log[st].error = <<"Cancelled">>

\* C9: when fetch_tautulli, render_template or publish_ghost raises, the
\* result record the run finalizes is Failed with an error_message that names
\* the step, the step's record is Failed and carries the raised text, and no
\* later step was started; without an accepted cancel request that is also
\* the persisted status.
C9_FatalStepFails ==
    (obs.fatal # "none" /\ pc \in {"commit", "refresh", "done"}) =>
        /\ pc \in {"commit", "refresh"} =>
              /\ hist.status = "failed"
              /\ obs.fatal \in Range(hist.error_message)
              /\ hist.progress_log[obs.fatal].status = "failed"
              /\ Occurs(obs.fatal_text, hist.progress_log[obs.fatal].error)
              /\ \A st \in DOMAIN hist.progress_log :
                    StepIndex(st) > StepIndex(obs.fatal)
                       => hist.progress_log[st].status = "pending"
        /\ obs.adapter_calls[Len(obs.adapter_calls)] = obs.fatal
        /\ (pc = "done" /\ \A r \in CancelReqs : ~req[r].ok) =>
              /\ db.status = "failed"
              /\ obs.fatal \in Range(db.error_message)

\* C9 witness: publish_ghost raised and the run ended
C9_Witness ==
    /\ obs.fatal = "publish_ghost" /\ pc = "done"
    /\ db.status = "failed"
    /\ db.progress_log["render_template"].status = "success"

SoftFailureRun ==
    /\ obs.soft_failed # {} /\ obs.fatal = "none"
    /\ NoCancelRequest
    /\ pc = "done"

\* C10 as stated: after a failure in an optional step, render and publish
\* are still attempted and the run ends Success.
C10_SoftFailureStillPublishes ==
    SoftFailureRun =>
        /\ Started("render_template") /\ Started("publish_ghost")
        /\ db.status = "success"

\* C10 amended: after a failure in an optional step every later fetch step
\* still runs and the run ends Success; render and publish are attempted
\* unless skip_if_empty is set and no item was collected, in which case
\* neither is started.
C10_SoftFailureContinues ==
    SoftFailureRun =>
        /\ db.status = "success"
        /\ \A st \in DOMAIN db.progress_log :
              StepIndex(st) <= 7 => db.progress_log[st].status \in {"success", "skipped"}
        /\ IF config.skip_if_empty /\ get_total_items(items) = 0
           THEN ~Started("render_template") /\ ~Started("publish_ghost")
           ELSE Started("render_template") /\ Started("publish_ghost")

\* C10 witness: an optional fetch raised and the newsletter was published
C10_Witness ==
    /\ SoftFailureRun
    /\ obs.soft_failed \cap {"fetch_romm", "fetch_komga", "fetch_audiobookshelf",
                             "fetch_tunarr", "fetch_statistics"} # {}
    /\ db.progress_log["publish_ghost"].status = "success"
    /\ db.status = "success"

\* ------------------------------------------------------------------ claims on the result
FinalStatuses == {"success", "failed", "cancelled"}

\* C11: the persisted status only moves from Running to Success, Failed or
\* Cancelled, and a persisted Success, Failed or Cancelled never changes again.
C11_StatusFinal ==
    [][db'.status # db.status =>
          \/ db.status = "absent" /\ db'.status = "running"
          \/ db.status = "running" /\ db'.status \in FinalStatuses]_vars

\* the steps of tracker T that count as done
DoneSteps(T) == {st \in DOMAIN T.steps : T.steps[st].status \in {"success", "skipped"}}

\* C12: when generation_complete is emitted in a run without cancellation,
\* the weights of the Success and Skipped steps add up to the tracker's total
\* weight, and the event reports progress 100.
C12_CompleteMeansAllWeight ==
    (NoCancelRequest /\ last_call.op = "complete_generation") =>
        LET T == trackers[last_call.t] IN
        /\ SumWeights(DoneSteps(T)) = T.total_weight
        /\ published[G][Len(published[G])].type = "generation_complete"
        /\ published[G][Len(published[G])].progress = 100

ItemsTotalZero == \A x \in ItemSources : items[x] = 0

SkippedMessage == <<"Skipped: no new content">>

\* C13: with skip_if_empty set and no item collected, render_template and
\* publish_ghost are never started, and a run that is neither cancelled nor
\* failed ends Success with items_count 0 and message "Skipped: no new content".
C13_SkipIfEmpty ==
    (config.skip_if_empty /\ ItemsTotalZero) =>
        /\ ~Started("render_template") /\ ~Started("publish_ghost")
        /\ (NoCancelRequest /\ obs.fatal = "none" /\ pc \in {"commit", "refresh", "done"}) =>
              /\ hist.status = "success"
              /\ hist.items_count = 0
              /\ hist.error_message = SkippedMessage
              /\ pc # "commit" =>
                    /\ db.status = "success"
                    /\ db.items_count = 0
                    /\ db.error_message = SkippedMessage

\* C13 witness: a run whose enabled sources returned nothing ended by the
\* skip-if-empty branch
C13_Witness ==
    /\ config.skip_if_empty /\ ItemsTotalZero /\ NoCancelRequest
    /\ pc = "done"
    /\ obs.adapter_calls # <<>>
    /\ db.status = "success" /\ db.error_message = SkippedMessage

\* C14: among the events of one generation other than generation_cancelled,
\* a later event never reports less progress than an earlier one.
C14_ProgressMonotone ==
    \A i, j \in 1..Len(published[G]) :
        (i < j /\ published[G][i].type # "generation_cancelled"
               /\ published[G][j].type # "generation_cancelled")
           => published[G][i].progress <= published[G][j].progress

\* C14 witness: progress rose, then the -1 sentinel was emitted, then the
\* step in flight reported its failure with the progress reached so far
C14_Witness ==
    \E i, j, k \in 1..Len(published[G]) :
        /\ i < j /\ j < k
        /\ published[G][i].progress = 0
        /\ published[G][j].type = "generation_cancelled"
        /\ published[G][j].progress = -1
        /\ published[G][k].type = "step_error"
        /\ published[G][k].progress > 0

\* C15: once _finalize has committed, the persisted result has completed_at
\* and the duration set and its progress log is the tracker's step log.
C15_FinalizeRecords ==
    pc \in {"refresh", "done"} =>
        /\ db.completed_at /\ db.duration_set
        /\ db.progress_log = get_progress_log(my)

\* C15 witness: a run ended by cancellation with its interrupted step in the
\* persisted log
C15_Witness ==
    /\ pc = "done" /\ path = "return"
    /\ db.status = "cancelled" /\ db.completed_at
    /\ \E st \in DOMAIN db.progress_log : db.progress_log[st].error = <<"Cancelled">>

InPipeline == pc \in {"created", "bg_sleep", "begin", "creds", "call", "check",
                      "except", "complete"}

\* C16: the id is registered from create_history_entry until the pipeline
\* ends and is absent afterwards; cancel_generation called after the end
\* returns False, sets no flag and emits nothing.
C16_RegistryLifetime ==
    /\ [](/\ InPipeline => G \in DOMAIN active
          /\ pc = "done" => G \notin DOMAIN active)
    /\ [][\A r \in CancelReqs :
            (pc = "done" /\ req[r].pc = "read" /\ req'[r].pc # "read") =>
                /\ ~req'[r].ok /\ req'[r].pc = "done"
                /\ trackers' = trackers
                /\ published' = published]_vars

\* C16 witness: a cancel request that had read status Running was refused
\* after a run that returned from inside the try block had ended
C16_Witness ==
    /\ pc = "done" /\ path = "return"
    /\ \E r \in CancelReqs : req[r].pc = "done" /\ req[r].seen = "running" /\ ~req[r].ok

\* ------------------------------------------------------------------ more claims on the bus
\* subscriber s subscribed when everything published for its id had been
\* purged by _cleanup_history
SubscribedAfterCleanup(s) ==
    /\ sub[s].pc # "idle"
    /\ sub[s].pubsnap # <<>>
    /\ sub[s].purgesnap = Len(sub[s].pubsnap)

\* C17: a subscribe call made after the id completed and its history was
\* cleaned up ends at once with no event; it never waits on the live queue.
C17_CleanedUpEndsAtOnce ==
    \A s \in Subs :
        SubscribedAfterCleanup(s) => sub[s].pc = "done" /\ sub[s].received = <<>>

\* ------------------------------------------------------------------ SpecBusFair
\* the bus with the sleeping _cleanup_history tasks eventually run by the
\* event loop
MaxFairSubscribers == 1

FairSubs == {s \in Subs : s <= MaxFairSubscribers}

NextBusFair ==
    \/ \E g \in Gens, kind \in BusEventKinds : publish_any(g, kind)
    \/ \E s \in FairSubs, g \in Gens : SubUsable(s) /\ GenUsable(g) /\ subscribe(s, g)
    \/ \E s \in FairSubs : ReplayNext(s)
    \/ \E s \in FairSubs : LiveGet(s)
    \/ \E s \in FairSubs : LiveResume(s)
    \/ \E s \in FairSubs : LiveTimeout(s)
    \/ \E s \in FairSubs : SubClose(s)
    \/ \E g \in Gens : cleanup_history(g)

SpecBusFair ==
    /\ InitBus
    /\ [][NextBusFair]_vars
    /\ \A g \in Gens : WF_vars(cleanup_history(g))

\* C18: after a terminal event the id's history and completed marker are
\* eventually purged, and they are only ever removed by a _cleanup_history
\* task, not by a subscriber leaving.
C18_PurgedByCleanupOnly ==
    /\ \A g \in Gens :
          (g \in completed) ~> (g \notin completed /\ g \notin DOMAIN event_history)
    /\ [][\A g \in Gens :
            (\/ g \in DOMAIN event_history /\ g \notin DOMAIN event_history'
             \/ g \in completed /\ g \notin completed')
               => cleanup_tasks'[g] = cleanup_tasks[g] - 1]_vars

\* C18 witness: the only subscriber of a completed id has left and the
\* history and the marker are still there
C18_Witness ==
    \E g \in Gens :
        /\ g \in completed /\ g \in DOMAIN event_history
        /\ g \notin DOMAIN subscribers
        /\ \E s \in Subs : sub[s].gen = g /\ sub[s].pc = "done" /\ sub[s].received # <<>>

\* e was published under id g
PublishedUnder(e, g) == e.n \in 1..Len(published[g]) /\ published[g][e.n] = e

C20_PublishReachesAll ==
    [][\A g \in Gens :
         Len(published'[g]) = Len(published[g]) + 1 =>
            \A s \in Subs :
               (g \in DOMAIN subscribers /\ s \in Range(subscribers[g]))
                  => queue'[s] = Append(queue[s], published'[g][Len(published'[g])])]_vars

\* C20 witness: two subscribers registered for one id both hold the same
\* newly published event in their queues
C20_Witness ==
    \E s, t \in Subs :
        /\ s # t /\ sub[s].gen = sub[t].gen
        /\ queue[s] # <<>> /\ queue[t] # <<>>
        /\ queue[s][Len(queue[s])] = queue[t][Len(queue[t])]

Registered(s) == \E g \in DOMAIN subscribers : s \in Range(subscribers[g])

\* C21: a subscriber whose sequence has ended, normally or by the consumer
\* closing it, is in no registration list while a running one is in the list
\* of its id; no id is registered with an empty list; and the step that ends
\* a sequence leaves the history, the completed markers and the registration
\* of the other subscribers as they were.
C21_UnsubscribeFrame ==
    /\ [](/\ \A g \in DOMAIN subscribers : subscribers[g] # <<>>
          /\ \A s \in Subs :
                /\ sub[s].pc = "done" => ~Registered(s)
                /\ sub[s].pc \in {"replay", "wait", "yielded"} =>
                      /\ has_subscribers(sub[s].gen)
                      /\ s \in Range(subscribers[sub[s].gen]))
    /\ [][\A s \in Subs :
            (sub[s].pc # "done" /\ sub'[s].pc = "done") =>
               /\ event_history' = event_history
               /\ completed' = completed
               /\ \A t \in Subs \ {s}, g \in Gens :
                     (g \in DOMAIN subscribers /\ t \in Range(subscribers[g]))
                        => (g \in DOMAIN subscribers' /\ t \in Range(subscribers'[g]))]_vars

\* C21 witness: the consumer closed the only subscriber of an id whose
\* history is still kept, and the id is no longer registered
C21_Witness ==
    \E s \in Subs :
        /\ sub[s].pc = "done" /\ sub[s].closed
        /\ ~has_subscribers(sub[s].gen)
        /\ sub[s].gen \in DOMAIN event_history

\* C22: the record of an optional step that raised is Failed and carries the
\* error, with zero items, while the result has no error_message and is
\* Success.
C22_SoftFailureRecorded ==
    SoftFailureRun =>
        /\ \A st \in obs.soft_failed :
              /\ db.progress_log[st].status = "failed"
              /\ db.progress_log[st].error # NoError
              /\ db.progress_log[st].items_count = 0
        /\ db.status = "success"
        /\ db.error_message \in {NoError, SkippedMessage}

\* C23: a persisted result with status Cancelled has error message
\* "Cancelled by user".
C23_CancelledMessage ==
    db.status = "cancelled" => db.error_message = <<"Cancelled by user">>

\* C24: an error raised by an adapter never leaves the pipeline: a fatal one
\* is caught by _execute_pipeline, which records Failed with the error text
\* and goes on to finalize and return; one raised in an optional step is
\* swallowed by the step method and the pipeline continues with its check.
C24_ErrorsStayInside ==
    [][/\ obs'.fatal # obs.fatal => (pc' = "except" /\ raised' # <<>>)
       /\ pc = "except" =>
             /\ pc' = "commit"
             /\ hist'.status = "failed"
             /\ hist'.error_message = raised
             /\ hist'.completed_at
       /\ obs'.soft_failed # obs.soft_failed => (pc' = "check" /\ raised' = raised)
       /\ pc \in {"commit", "refresh"} => pc' \in {"commit", "refresh", "done"}]_vars

\* C24 witness: the primary fetch raised and the run returned its record
C24_Witness ==
    /\ obs.fatal = "fetch_tautulli" /\ pc = "done"
    /\ hist.error_message = raised /\ raised # <<>>
    /\ hist.completed_at

\* C26: no subscriber receives the same published event twice.
C26_NoDuplicateDelivery ==
    \A s \in Subs :
        \A i, j \in 1..Len(sub[s].received) :
            i # j => sub[s].received[i].n # sub[s].received[j].n

\* C27: at most one terminal event is published for the generation and no
\* event follows it.
C27_OneTerminalLast ==
    \A i \in 1..Len(published[G]) :
        published[G][i].type \in TerminalTypes => i = Len(published[G])

\* C28: while the id is registered, the registered tracker is the one the
\* pipeline checks, and a cancellation flag set on any tracker of the
\* generation is set on it.
C28_RegistryTrackerIsPipelines ==
    G \in DOMAIN active =>
        /\ active[G] = my
        /\ \A t \in DOMAIN trackers :
              trackers[t].is_cancelled => trackers[active[G]].is_cancelled

\* C29: once the pipeline has ended, history still kept for its id has a
\* _cleanup_history task pending that will purge it.
C29_FinishedHistoryPurged ==
    (pc = "done" /\ G \in DOMAIN event_history) => cleanup_tasks[G] > 0

StepErrors(step_id) ==
    {i \in 1..Len(published[G]) :
        published[G][i].type = "step_error" /\ published[G][i].step = step_id}

\* C30: a step that failed fatally has exactly one step_error event.
C30_OneStepError ==
    (obs.fatal # "none" /\ pc \in {"commit", "refresh", "done"}) =>
        Cardinality(StepErrors(obs.fatal)) = 1

\* ------------------------------------------------------------------ SpecTitle
\* the pipeline with the clock advancing while the orchestrator is suspended
MaxClock == 1

TitleConfigs == {c \in [enabled : SUBSET Sources, skip_if_empty : BOOLEAN,
                         title : TitleTemplates] :
                    Cardinality(c.enabled \cap OptionalSources) <= MaxOptional}

InitTitle ==
    /\ BusInit
    /\ mode = "none"
    /\ config \in TitleConfigs
    /\ pc = "idle"
    /\ cur = 0
    /\ trackers = <<>>
    /\ active = <<>>
    /\ my = "none"
    /\ hist = NoRow
    /\ db = NoRow
    /\ items = [x \in ItemSources |-> 0]
    /\ raised = <<>>
    /\ ghost_url = "none"
    /\ path = "none"
    /\ req = [r \in CancelReqs |-> IdleReq]
    /\ last_call = [t |-> "none", op |-> "none", step |-> ""]
    /\ cancelled_running = {}
    /\ obs = NoCalls
    /\ clock = 0
    /\ reported = NoProgress

\* midnight passes
Tick ==
    /\ AtSuspension
    /\ clock < MaxClock
    /\ clock' = clock + 1
    /\ UNCHANGED busVars
    /\ UNCHANGED <<mode, config, pc, cur, trackers, active, my, hist, db, items, raised,
                   ghost_url, path, req, last_call, cancelled_running, obs, reported>>

NextTitle ==
    \/ Next
    \/ Tick

SpecTitle == InitTitle /\ [][NextTitle]_vars

\* C25: the title put into the render context and the title passed to the
\* publish call of one run are the same string.
C25_OneTitle ==
    (obs.render_title # NoTitle /\ obs.publish_title # NoTitle) =>
        obs.render_title = obs.publish_title

\* ------------------------------------------------------------------ claims C31..C36
\* the events of tracker t that report an addition of the weight of step_id
WeightEvents(t, step_id) ==
    {i \in 1..Len(published[G]) :
        /\ published[G][i].src = t
        /\ published[G][i].step = step_id
        /\ published[G][i].type \in {"step_complete", "step_skipped"}}

\* C31: each tracker has added the weight of a step at most once, only for a
\* step it holds, and its completed weight, the sum of the weights added,
\* never exceeds its total weight.
C31_WeightAddedOnce ==
    \A t \in DOMAIN trackers :
        LET T == trackers[t]
            added == {st \in StepIds : WeightEvents(t, st) # {}}
        IN /\ \A st \in StepIds : Cardinality(WeightEvents(t, st)) <= 1
           /\ added \subseteq DOMAIN T.steps
           /\ T.completed_weight = SumWeights(added)
           /\ T.completed_weight <= T.total_weight

\* C31 witness: a run with an optional source enabled ended with every
\* enabled step's weight added
C31_Witness ==
    /\ pc = "done" /\ my # "none"
    /\ config.enabled \cap OptionalSources # {}
    /\ "tautulli" \in config.enabled
    /\ trackers[my].completed_weight = trackers[my].total_weight
    /\ obs.unconfigured # {}

\* the positions of the step_start events of the generation
StepStarts == {i \in 1..Len(published[G]) : published[G][i].type = "step_start"}

\* the steps of tracker T in status Running
RunningSteps(T) == {st \in DOMAIN T.steps : T.steps[st].status = "running"}

\* C32: the step_start events of a generation follow the catalog order with no
\* step started twice, at most one step is Running at a time, and a step is
\* started only when no step of the generation is Running.
C32_StepsInCatalogOrder ==
    /\ [](/\ \A i, j \in StepStarts :
                i < j => StepIndex(published[G][i].step) < StepIndex(published[G][j].step)
          /\ \A t \in DOMAIN trackers : Cardinality(RunningSteps(trackers[t])) <= 1)
    /\ [][Len(published'[G]) > Len(published[G])
             /\ published'[G][Len(published'[G])].type = "step_start"
          => /\ \A t \in DOMAIN trackers : RunningSteps(trackers[t]) = {}
             /\ RunningSteps(trackers'[my]) = {published'[G][Len(published'[G])].step}]_vars

\* C32 witness: a finished run that started the primary fetch, the
\* enrichment, an optional fetch, the render and the publish step
C32_Witness ==
    /\ pc = "done"
    /\ Cardinality(StepStarts) >= 5
    /\ Started("fetch_tautulli") /\ Started("enrich_tmdb") /\ Started("publish_ghost")

\* the orchestrator's step calls fail_step: the except clause of a fatal step
\* method, or the except clause of _execute_pipeline with a current step
FailStepCalled ==
    \/ pc = "call" /\ pc' = "except"
    \/ pc = "except" /\ pc' = "commit" /\ trackers[my].current_step # "none"

\* C33: every call of fail_step, on a cancelled tracker too, leaves the step
\* Failed with the error of the call, leaves the completed weight and the
\* cancel flag as they were, and publishes one step_error event for the step
\* that reports the progress of before the call.
C33_FailAlwaysRecorded ==
    [][FailStepCalled =>
          LET st == last_call'.step
              T == trackers[my]
              T2 == trackers'[my]
              e == published'[G][Len(published'[G])]
          IN /\ last_call'.op = "fail_step" /\ last_call'.t = my
             /\ T2.steps[st].status = "failed"
             /\ T2.steps[st].error = (IF pc = "except" THEN raised ELSE obs'.fatal_text)
             /\ T2.completed_weight = T.completed_weight
             /\ T2.is_cancelled = T.is_cancelled
             /\ Len(published'[G]) = Len(published[G]) + 1
             /\ e.type = "step_error" /\ e.step = st
             /\ e.progress = Progress(T)
             /\ e.progress = Progress(T2)]_vars

\* C33 witness: a cancelled tracker, with weight already completed, recorded
\* the failure of the step that was in flight
C33_Witness ==
    /\ my # "none" /\ trackers[my].is_cancelled
    /\ last_call.op = "fail_step" /\ last_call.t = my
    /\ trackers[my].completed_weight > 0
    /\ trackers[my].steps[last_call.step].status = "failed"
    /\ trackers[my].steps[last_call.step].error # <<"Cancelled">>
    /\ published[G][Len(published[G])].type = "step_error"
    /\ "generation_cancelled" \in Types(published[G])

\* the steps the configuration enables: the steps of the enabled sources,
\* enrich_tmdb with the primary source, and the two steps without a source
EnabledByConfig ==
    {st \in StepIds : SourceOf(st) = "none" \/ SourceOf(st) \in config.enabled}

\* the orchestrator is at the head of a step whose source is disabled
AtDisabledStep ==
    /\ pc = "begin"
    /\ SourceOf(Steps[cur]) # "none"
    /\ SourceOf(Steps[cur]) \notin config.enabled

\* C34: every tracker holds records exactly for the steps the configuration
\* enables (enrich_tmdb exactly with the primary source, render_template and
\* publish_ghost always), its total weight is the sum of their weights, no
\* event names a step without a record, and the skip of a disabled step
\* changes no tracker and publishes nothing.
C34_OnlyEnabledSteps ==
    /\ [](/\ \A t \in DOMAIN trackers :
                /\ DOMAIN trackers[t].steps = EnabledByConfig
                /\ trackers[t].total_weight = SumWeights(EnabledByConfig)
                /\ ("enrich_tmdb" \in DOMAIN trackers[t].steps) <=>
                      ("fetch_tautulli" \in DOMAIN trackers[t].steps)
                /\ {"render_template", "publish_ghost"} \subseteq DOMAIN trackers[t].steps
          /\ \A i \in 1..Len(published[G]) :
                published[G][i].step \in StepIds =>
                   published[G][i].step \in EnabledByConfig)
    /\ [][AtDisabledStep =>
             /\ last_call'.op = "skip_step" /\ last_call'.step = Steps[cur]
             /\ trackers' = trackers
             /\ published' = published
             /\ event_history' = event_history
             /\ pc' = "check"]_vars

\* C34 witness: with the primary source enabled and ROMM disabled, the
\* orchestrator has skipped fetch_romm after two steps that completed
C34_Witness ==
    /\ pc = "check" /\ cur = 3
    /\ "tautulli" \in config.enabled /\ "romm" \notin config.enabled
    /\ last_call.op = "skip_step" /\ last_call.step = "fetch_romm"
    /\ "fetch_romm" \notin DOMAIN trackers[my].steps
    /\ trackers[my].completed_weight = 35
    /\ trackers[my].total_weight < SumWeights(StepIds)

NotConfiguredMessages ==
    {"Not configured", "TMDB not configured", "Tautulli not configured",
     "Ghost not configured"}

\* C35: a step found without credentials never has its adapter called and
\* raises nothing; unless the tracker was cancelled meanwhile, the step
\* becomes Skipped with a "not configured" message, its weight is added and a
\* step_skipped event is published; the pipeline goes on to its next check
\* (after publish_ghost: to completion), and a run whose publish step was
\* skipped this way ends Success with no post id and no url.
C35_NotConfiguredSkips ==
    /\ [][obs'.unconfigured # obs.unconfigured =>
             LET st == Steps[cur]
                 T == trackers[my]
                 T2 == trackers'[my]
             IN /\ obs'.unconfigured = obs.unconfigured \cup {st}
                /\ st \in DOMAIN T.steps
                /\ obs'.adapter_calls = obs.adapter_calls
                /\ raised' = raised /\ obs'.fatal = obs.fatal
                /\ pc' = IF st = "publish_ghost" THEN "complete" ELSE "check"
                /\ ~T.is_cancelled =>
                      /\ T2.steps[st].status = "skipped"
                      /\ T2.steps[st].message \in NotConfiguredMessages
                      /\ T2.completed_weight = T.completed_weight + Weight(st)
                      /\ published'[G][Len(published'[G])].type = "step_skipped"
                      /\ published'[G][Len(published'[G])].step = st]_vars
    /\ [](/\ \A st \in obs.unconfigured :
                \A i \in 1..Len(obs.adapter_calls) : obs.adapter_calls[i] # st
          /\ (obs.unconfigured # {} /\ obs.fatal = "none" /\ NoCancelRequest
                 /\ pc = "done") => db.status = "success"
          /\ ("publish_ghost" \in obs.unconfigured /\ pc \in {"commit", "refresh", "done"}) =>
                /\ hist.ghost_post_id = "none" /\ hist.ghost_post_url = "none"
                /\ pc = "commit" => hist.status = "success"
                /\ (NoCancelRequest /\ pc = "done") =>
                      /\ db.status = "success"
                      /\ db.ghost_post_id = "none" /\ db.ghost_post_url = "none")

\* C35 witness: a run that found Ghost not configured ended Success with the
\* publish step Skipped, all weight completed and no post
C35_Witness ==
    /\ pc = "done" /\ "publish_ghost" \in obs.unconfigured
    /\ db.status = "success" /\ db.ghost_post_id = "none" /\ db.ghost_post_url = "none"
    /\ trackers[my].steps["publish_ghost"].status = "skipped"
    /\ trackers[my].steps["publish_ghost"].message = "Ghost not configured"
    /\ trackers[my].completed_weight = trackers[my].total_weight
    /\ obs.adapter_calls # <<>>

\* ------------------------------------------------------------------ SpecProgress
\* _calculate_progress on its own, in the float arithmetic of the code:
\* min(100, int((completed / total) * 100)).  A binary number is a sequence
\* of bits, most significant first; a float is 0 or a 53-bit significand m
\* whose leading bit is 1 and has weight 2^e.
SignificandBits == 53

MaxWeight == 50    \* completed and total weight given to _calculate_progress, at most

LimbBits == 18     \* binary numbers are multiplied in pieces of this many digits
ChunkBits == 10    \* a quotient is developed this many digits at a time
FracChunkCount == 7

ZeroBits == <<0, 0, 0, 0, 0, 0, 0, 0, 0, 0, 0, 0, 0, 0, 0, 0,
              0, 0, 0, 0, 0, 0, 0, 0, 0, 0, 0, 0, 0, 0, 0, 0,
              0, 0, 0, 0, 0, 0, 0, 0, 0, 0, 0, 0, 0, 0, 0, 0,
              0, 0, 0, 0, 0, 0, 0, 0, 0, 0, 0, 0, 0, 0, 0, 0>>

Zeros(k) == SubSeq(ZeroBits, 1, k)

\* the binary digits of the natural number n, without leading zeros
RECURSIVE Bits(_)
Bits(n) == IF n = 0 THEN <<>> ELSE Bits(n \div 2) \o <<n % 2>>

\* the last w binary digits of the natural number n
RECURSIVE BitsN(_, _)
BitsN(n, w) == IF w = 0 THEN <<>> ELSE BitsN(n \div 2, w - 1) \o <<n % 2>>

\* the natural number with binary digits b
RECURSIVE BitsValue(_)
BitsValue(b) ==
    IF b = <<>> THEN 0 ELSE 2 * BitsValue(SubSeq(b, 1, Len(b) - 1)) + b[Len(b)]

\* the first k * ChunkBits digits after the binary point of r / t, 0 <= r < t
RECURSIVE FracBits(_, _, _)
FracBits(r, t, k) ==
    IF k = 0 THEN <<>>
    ELSE BitsN((r * 2^ChunkBits) \div t, ChunkBits)
            \o FracBits((r * 2^ChunkBits) % t, t, k - 1)

\* what is left of r / t after those digits
RECURSIVE FracRem(_, _, _)
FracRem(r, t, k) ==
    IF k = 0 THEN r ELSE FracRem((r * 2^ChunkBits) % t, t, k - 1)

\* the number of zeros b starts with
LeadingZeros(b) ==
    IF \A i \in 1..Len(b) : b[i] = 0 THEN Len(b)
    ELSE (CHOOSE i \in 1..Len(b) : b[i] = 1 /\ \A j \in 1..(i - 1) : b[j] = 0) - 1

ShiftLeft(b, k) == b \o Zeros(k)

\* b + 1
Increment(b) ==
    IF \A i \in 1..Len(b) : b[i] = 1 THEN <<1>> \o Zeros(Len(b))
    ELSE LET j == CHOOSE i \in 1..Len(b) :
                     b[i] = 0 /\ \A k \in (i + 1)..Len(b) : b[k] = 1
         IN SubSeq(b, 1, j - 1) \o <<1>> \o Zeros(Len(b) - j)

\* m * 100 for a significand m, computed on three pieces of LimbBits digits
Times100(m) ==
    LET padded == Zeros(3 * LimbBits - Len(m)) \o m
        lo == 100 * BitsValue(SubSeq(padded, 2 * LimbBits + 1, 3 * LimbBits))
        mid == 100 * BitsValue(SubSeq(padded, LimbBits + 1, 2 * LimbBits))
                  + lo \div 2^LimbBits
        hi == 100 * BitsValue(SubSeq(padded, 1, LimbBits)) + mid \div 2^LimbBits
    IN Bits(hi) \o BitsN(mid % 2^LimbBits, LimbBits) \o BitsN(lo % 2^LimbBits, LimbBits)

FloatZero == [m |-> <<>>, e |-> 0]

\* round-half-to-even of the number with digits s (leading digit 1, of weight
\* 2^e) followed by a nonzero rest iff sticky, to SignificandBits digits
RoundToFloat(s, e, sticky) ==
    IF Len(s) <= SignificandBits
    THEN [m |-> ShiftLeft(s, SignificandBits - Len(s)), e |-> e]
    ELSE LET keep == SubSeq(s, 1, SignificandBits)
             guard == s[SignificandBits + 1]
             rest == sticky \/ \E i \in (SignificandBits + 2)..Len(s) : s[i] = 1
             up == guard = 1 /\ (rest \/ keep[SignificandBits] = 1)
             inc == Increment(keep)
         IN IF ~up THEN [m |-> keep, e |-> e]
            ELSE IF Len(inc) > SignificandBits
            THEN [m |-> SubSeq(inc, 1, SignificandBits), e |-> e + 1]
            ELSE [m |-> inc, e |-> e]

\* the float c / t of two non-negative ints, t > 0 (correctly rounded)
FloatDiv(c, t) ==
    IF c = 0 THEN FloatZero
    ELSE LET whole == Bits(c \div t)
             digits == whole \o FracBits(c % t, t, FracChunkCount)
             z == LeadingZeros(digits)
         IN RoundToFloat(SubSeq(digits, z + 1, Len(digits)), Len(whole) - 1 - z,
                         FracRem(c % t, t, FracChunkCount) # 0)

\* the float x * 100
FloatTimes100(x) ==
    IF x = FloatZero THEN FloatZero
    ELSE LET prod == Times100(x.m)
         IN RoundToFloat(prod, x.e - (SignificandBits - 1) + (Len(prod) - 1), FALSE)

\* int(x) for a float x >= 0
FloatToInt(x) ==
    IF x = FloatZero \/ x.e < 0 THEN 0
    ELSE IF x.e < SignificandBits THEN BitsValue(SubSeq(x.m, 1, x.e + 1))
    ELSE BitsValue(ShiftLeft(x.m, x.e - (SignificandBits - 1)))

\* ProgressTracker._calculate_progress, in floats as the code computes it
calculate_progress_float(completed_weight, total_weight) ==
    IF total_weight = 0 THEN 0
    ELSE Min(100, FloatToInt(FloatTimes100(FloatDiv(completed_weight, total_weight))))

\* in every run of the pipeline the float result is the integer quotient
ProgressQuotientExact ==
    \A t \in DOMAIN trackers :
        calculate_progress_float(trackers[t].completed_weight, trackers[t].total_weight)
            = Progress(trackers[t])

\* a tracker with the given weights
WeightedTracker(completed_weight, total_weight) ==
    [NewTracker(StepIds) EXCEPT !.completed_weight = completed_weight,
                                !.total_weight = total_weight]

InitProgress ==
    /\ BusInit
    /\ mode = "none"
    /\ config = [enabled |-> {}, skip_if_empty |-> FALSE, title |-> PlainTitle]
    /\ pc = "idle"
    /\ cur = 0
    /\ \E c \in 0..MaxWeight, t \in 0..MaxWeight :
          trackers = [x \in {"t0"} |-> WeightedTracker(c, t)]
    /\ active = <<>>
    /\ my = "t0"
    /\ hist = NoRow
    /\ db = NoRow
    /\ items = [x \in ItemSources |-> 0]
    /\ raised = <<>>
    /\ ghost_url = "none"
    /\ path = "none"
    /\ req = [r \in CancelReqs |-> IdleReq]
    /\ last_call = [t |-> "none", op |-> "none", step |-> ""]
    /\ cancelled_running = {}
    /\ obs = NoCalls
    /\ clock = 0
    /\ reported = NoProgress

\* a call of _calculate_progress
CalculateProgress ==
    /\ reported = NoProgress
    /\ reported' = calculate_progress_float(trackers[my].completed_weight,
                                            trackers[my].total_weight)
    /\ UNCHANGED busVars
    /\ UNCHANGED <<mode, config, pc, cur, trackers, active, my, hist, db, items, raised,
                   ghost_url, path, req, last_call, cancelled_running, obs, clock>>

NextProgress == CalculateProgress

SpecProgress == InitProgress /\ [][NextProgress]_vars

====
